---- MODULE Spec2Model ----
(***************************************************************************)
(* A model of remix.init/index.js, the post-generation customizer of the   *)
(* symphonic stack template: main() and the helpers it calls.              *)
(*                                                                         *)
(* JavaScript strings are modelled as sequences of one-character strings,  *)
(* so that String.prototype.replace, the sanitizing regular expression and *)
(* the hexadecimal encoding are computed character by character.           *)
(***************************************************************************)
EXTENDS Integers, Sequences, FiniteSets, TLC

VARIABLES
    isTypeScript,           \* argument of main
    packageManager,         \* argument of main
    rootDirectory,          \* argument of main (a path, as characters)
    pnpmVersion,            \* environment: what `pnpm --version` answers
    pc,                     \* main's position
    err,                    \* what main rejected with
    pm,                     \* the resolved package-manager profile
    SUFFIX,                 \* main's SUFFIX
    APP_NAME,               \* main's APP_NAME
    disk,                   \* the files under rootDirectory
    disk0,                  \* the files as they were when main was called
    status,                 \* each file operation: idle, pending, done, failed
    launches,               \* how many times each file operation was started
    fileOperationPromises,  \* main's array of the write batch
    loaded,                 \* what the awaited reads resolved with
    payload,                \* what each launched write was given to write
    formatter,              \* the execSync of the format script
    printed                 \* the completion message, once logged

vars == <<isTypeScript, packageManager, rootDirectory, pnpmVersion, pc, err,
          pm, SUFFIX, APP_NAME, disk, disk0, status, launches,
          fileOperationPromises, loaded, payload, formatter, printed>>

-----------------------------------------------------------------------------
(* Bounds of the model.                                                    *)

\* The longest directory name the name generator is tried on.
MaxDirLen == 3

-----------------------------------------------------------------------------
(* Strings.                                                                *)

Range(s) == {s[i] : i \in 1..Len(s)}

\* s.startsWith(pat, i) with i counted from 1.
MatchesAt(s, pat, i) ==
    /\ i >= 1
    /\ i + Len(pat) - 1 <= Len(s)
    /\ \A k \in 1..Len(pat) : s[i + k - 1] = pat[k]

\* s.indexOf(pat) counted from 1; 0 when pat does not occur.
IndexOf(s, pat) ==
    LET hits == {i \in 1..(Len(s) + 1) : MatchesAt(s, pat, i)}
    IN  IF hits = {} THEN 0 ELSE CHOOSE i \in hits : \A j \in hits : i <= j

Contains(s, pat) == IndexOf(s, pat) # 0

\* GetSubstitution of String.prototype.replace for a pattern without capture
\* groups: $$ is a dollar, $& the match, $` what precedes the match and $'
\* what follows it; every other character stands for itself.
RECURSIVE GetSubstitution(_, _, _, _)
GetSubstitution(rep, matched, before, after) ==
    IF rep = <<>> THEN <<>>
    ELSE IF Head(rep) = "$" /\ Len(rep) >= 2 /\ rep[2] \in {"$", "&", "`", "'"}
         THEN (CASE rep[2] = "$" -> <<"$">>
                 [] rep[2] = "&" -> matched
                 [] rep[2] = "`" -> before
                 [] rep[2] = "'" -> after)
              \o GetSubstitution(SubSeq(rep, 3, Len(rep)), matched, before, after)
         ELSE <<Head(rep)>>
              \o GetSubstitution(Tail(rep), matched, before, after)

\* s.replace(pat, rep) with a string pattern: the first occurrence only.
ReplaceFirst(s, pat, rep) ==
    LET i == IndexOf(s, pat)
    IN  IF i = 0 THEN s
        ELSE LET before == SubSeq(s, 1, i - 1)
                 after  == SubSeq(s, i + Len(pat), Len(s))
             IN  before \o GetSubstitution(rep, pat, before, after) \o after

\* The characters escapeRegExp puts a backslash before.
RegExpSpecials ==
    {".", "*", "+", "?", "^", "$", "{", "}", "(", ")", "|", "[", "]", "\\"}

\* escapeRegExp(string)
RECURSIVE EscapeRegExp(_)
EscapeRegExp(string) ==
    IF string = <<>> THEN <<>>
    ELSE (IF Head(string) \in RegExpSpecials THEN <<"\\", Head(string)>>
                                             ELSE <<Head(string)>>)
         \o EscapeRegExp(Tail(string))

\* new RegExp(source), for the sources escapeRegExp produces: a backslash
\* and a character match that character, a dot any character, and any other
\* character itself.
RECURSIVE RegExpAtoms(_)
RegExpAtoms(source) ==
    IF source = <<>> THEN <<>>
    ELSE IF Head(source) = "\\" /\ Len(source) >= 2
         THEN <<[any |-> FALSE, char |-> source[2]]>>
              \o RegExpAtoms(SubSeq(source, 3, Len(source)))
         ELSE <<[any |-> Head(source) = ".", char |-> Head(source)]>>
              \o RegExpAtoms(Tail(source))

AtomsMatchAt(s, atoms, i) ==
    /\ i >= 1
    /\ i + Len(atoms) - 1 <= Len(s)
    /\ \A k \in 1..Len(atoms) : atoms[k].any \/ s[i + k - 1] = atoms[k].char

\* s.replace(regexp, rep) with the g flag: every match, left to right, the
\* search resuming after each match.
RECURSIVE ReplaceFrom(_, _, _, _)
ReplaceFrom(s, atoms, rep, from) ==
    LET hits == {i \in from..(Len(s) + 1) : AtomsMatchAt(s, atoms, i)}
    IN  IF hits = {} \/ atoms = <<>> THEN SubSeq(s, from, Len(s))
        ELSE LET i      == CHOOSE h \in hits : \A j \in hits : h <= j
                 before == SubSeq(s, 1, i - 1)
                 after  == SubSeq(s, i + Len(atoms), Len(s))
             IN  SubSeq(s, from, i - 1)
                 \o GetSubstitution(rep, SubSeq(s, i, i + Len(atoms) - 1), before, after)
                 \o ReplaceFrom(s, atoms, rep, i + Len(atoms))

\* s.replace(new RegExp(source, 'g'), rep)
ReplaceAllRegExp(s, source, rep) == ReplaceFrom(s, RegExpAtoms(source), rep, 1)

-----------------------------------------------------------------------------
(* The name generator: main, lines 121-126.                                *)

Letters ==
    {"a","b","c","d","e","f","g","h","i","j","k","l","m",
     "n","o","p","q","r","s","t","u","v","w","x","y","z",
     "A","B","C","D","E","F","G","H","I","J","K","L","M",
     "N","O","P","Q","R","S","T","U","V","W","X","Y","Z"}

Digits == {"0","1","2","3","4","5","6","7","8","9"}

\* The characters the class [^a-zA-Z0-9-_] does not match.
AllowedChars == Letters \cup Digits \cup {"-", "_"}

HexDigits == <<"0","1","2","3","4","5","6","7","8","9","a","b","c","d","e","f">>

\* Buffer.toString('hex') of one byte: two digits, the high nibble first.
HexOfByte(b) == <<HexDigits[(b \div 16) + 1], HexDigits[(b % 16) + 1]>>

\* A plausible slip: Number.toString(16), which does not pad to two digits.
RECURSIVE GetRandomStringUnpadded(_)
GetRandomStringUnpadded(bytes) ==
    IF bytes = <<>> THEN <<>>
    ELSE (IF Head(bytes) < 16 THEN <<HexDigits[Head(bytes) + 1]>>
                              ELSE HexOfByte(Head(bytes)))
         \o GetRandomStringUnpadded(Tail(bytes))

\* getRandomString(length), given the bytes crypto.randomBytes(length) drew.
RECURSIVE GetRandomString(_)
GetRandomString(bytes) ==
    IF bytes = <<>> THEN <<>>
    ELSE HexOfByte(Head(bytes)) \o GetRandomString(Tail(bytes))

\* The argument of getRandomString in main: the number of random bytes.
SUFFIX_BYTES == 2

\* path.basename (POSIX): trailing separators are dropped, then the part
\* after the last separator is taken.
RECURSIVE StripTrailingSep(_)
StripTrailingSep(p) ==
    IF p # <<>> /\ p[Len(p)] = "/" THEN StripTrailingSep(SubSeq(p, 1, Len(p) - 1))
    ELSE p

Basename(p) ==
    LET q    == StripTrailingSep(p)
        seps == {i \in 1..Len(q) : q[i] = "/"}
        last == IF seps = {} THEN 0 ELSE CHOOSE i \in seps : \A j \in seps : j <= i
    IN  SubSeq(q, last + 1, Len(q))

\* A plausible slip: the regular expression without its g flag replaces the
\* first disallowed character only.
SanitizeFirstOnly(s) ==
    LET bad == {i \in 1..Len(s) : s[i] \notin AllowedChars}
    IN  IF bad = {} THEN s
        ELSE [i \in 1..Len(s) |->
                 IF i = CHOOSE b \in bad : \A j \in bad : b <= j THEN "-" ELSE s[i]]

\* .replace(/[^a-zA-Z0-9-_]/g, '-'): every code unit outside the class
\* becomes a hyphen.
Sanitize(s) == [i \in 1..Len(s) |-> IF s[i] \in AllowedChars THEN s[i] ELSE "-"]

\* main's APP_NAME.
AppName(dirName, suffix) == Sanitize(dirName \o <<"-">> \o suffix)

-----------------------------------------------------------------------------
(* JavaScript values: what the parsers return and the serializers take.    *)
(* An object is the sequence of its entries in insertion order, its keys   *)
(* distinct.  Keys, and the strings the code only compares (job names,     *)
(* dependency names, versions), are atoms; the strings it searches in or   *)
(* rewrites are sequences of characters.                                   *)

Undefined == [t |-> "undefined"]
Str(chars) == [t |-> "str", v |-> chars]
Atom(a) == [t |-> "atom", v |-> a]
Num(n) == [t |-> "num", v |-> n]
Obj(entries) == [t |-> "obj", v |-> entries]
List(items) == [t |-> "list", v |-> items]
Entry(k, val) == [key |-> k, value |-> val]

Keys(es) == [i \in 1..Len(es) |-> es[i].key]
HasKey(es, k) == \E i \in 1..Len(es) : es[i].key = k
GetKey(es, k) ==
    IF HasKey(es, k) THEN es[CHOOSE i \in 1..Len(es) : es[i].key = k].value
    ELSE Undefined
DistinctKeys(es) == \A i, j \in 1..Len(es) : es[i].key = es[j].key => i = j

\* The entries whose key is not in ks, in their order.
RECURSIVE Without(_, _)
Without(es, ks) ==
    IF es = <<>> THEN <<>>
    ELSE (IF Head(es).key \in ks THEN <<>> ELSE <<Head(es)>>)
         \o Without(Tail(es), ks)

\* obj[k] = val: an existing key keeps its place, a new one goes last.
SetKey(es, k, val) ==
    IF HasKey(es, k)
    THEN [i \in 1..Len(es) |-> IF es[i].key = k THEN Entry(k, val) ELSE es[i]]
    ELSE Append(es, Entry(k, val))

\* The outcome of a call that may throw.
Threw == [threw |-> TRUE]
Returned(val) == [threw |-> FALSE, value |-> val]

\* A file that does not exist.
Absent == [type |-> "absent"]
\* A text file.
Text(chars) == [type |-> "text", chars |-> chars]

-----------------------------------------------------------------------------
(* fly.toml: main, lines 146-147 and 164.                                  *)

REPLACER ==
    <<"s","y","m","p","h","o","n","i","c","-","s","t","a","c","k","-",
      "t","e","m","p","l","a","t","e">>

\* A TOML file: its key/value lines in order, and its comment lines, which
\* the parser drops.
TomlFile(comments, entries) ==
    [type |-> "toml", comments |-> comments, entries |-> entries]

\* toml.parse: the table as an object; a key defined twice is a parse error.
TomlParse(file) ==
    IF file.type = "toml" /\ DistinctKeys(file.entries)
    THEN Returned(file.entries)
    ELSE Threw

\* toml.stringify writes a table's plain values first and its sub-tables
\* after them, with no comments.
RECURSIVE TomlPlain(_)
TomlPlain(es) ==
    IF es = <<>> THEN <<>>
    ELSE (IF Head(es).value.t # "obj" THEN <<Head(es)>> ELSE <<>>)
         \o TomlPlain(Tail(es))

RECURSIVE TomlTables(_)
TomlTables(es) ==
    IF es = <<>> THEN <<>>
    ELSE (IF Head(es).value.t = "obj" THEN <<Head(es)>> ELSE <<>>)
         \o TomlTables(Tail(es))

TomlStringify(es) == TomlFile(0, TomlPlain(es) \o TomlTables(es))

\* A plausible slip: the placeholder replaced in every string of the
\* document, as is done for the README, rather than in `app` alone.
PatchTomlEverywhere(prodToml, appName) ==
    LET app == GetKey(prodToml, "app")
    IN  IF app.t # "str" THEN Threw
        ELSE Returned([i \in 1..Len(prodToml) |->
                 IF prodToml[i].value.t = "str"
                 THEN Entry(prodToml[i].key,
                            Str(ReplaceFirst(prodToml[i].value.v, REPLACER, appName)))
                 ELSE prodToml[i]])

\* prodToml.app = prodToml.app.replace(REPLACER, APP_NAME): a TypeError when
\* `app` is missing or is not a string.
PatchToml(prodToml, appName) ==
    LET app == GetKey(prodToml, "app")
    IN  IF app.t # "str" THEN Threw
        ELSE Returned(SetKey(prodToml, "app",
                             Str(ReplaceFirst(app.v, REPLACER, appName))))

-----------------------------------------------------------------------------
(* .github/workflows/deploy.yml: cleanupDeployWorkflow, lines 11-18.       *)

\* A YAML file: the document, and its comment lines, which parsing drops.
YamlFile(comments, doc) == [type |-> "yaml", comments |-> comments, doc |-> doc]

\* YAML.parse; a file that is not YAML is a parse error.
YamlParse(file) == IF file.type = "yaml" THEN Returned(file.doc) ELSE Threw

\* YAML.stringify
YamlStringify(doc) == YamlFile(0, doc)

\* needs.filter(need => need !== 'typecheck')
RECURSIVE FilterNeeds(_)
FilterNeeds(needs) ==
    IF needs = <<>> THEN <<>>
    ELSE (IF Head(needs) # Atom("typecheck") THEN <<Head(needs)>> ELSE <<>>)
         \o FilterNeeds(Tail(needs))

\* A plausible slip: the job is deleted and the deploy job's needs are left
\* as they were.
CleanupDeployWorkflowNoFilter(deployWorkflow) ==
    IF deployWorkflow.t # "obj" THEN Threw
    ELSE LET jobs == GetKey(deployWorkflow.v, "jobs")
         IN  IF jobs.t # "obj" THEN Threw
             ELSE Returned(Obj(SetKey(deployWorkflow.v, "jobs",
                                      Obj(Without(jobs.v, {"typecheck"})))))

\* The document cleanupDeployWorkflow serializes.  A TypeError when the
\* document has no jobs map, no deploy job, or a deploy job whose needs is
\* not a list.
CleanupDeployWorkflow(deployWorkflow) ==
    IF deployWorkflow.t # "obj" THEN Threw
    ELSE LET jobs == GetKey(deployWorkflow.v, "jobs")
         IN  IF jobs.t # "obj" THEN Threw
             ELSE LET kept   == Without(jobs.v, {"typecheck"})
                      deploy == GetKey(kept, "deploy")
                  IN  IF deploy.t # "obj" THEN Threw
                      ELSE LET needs == GetKey(deploy.v, "needs")
                           IN  IF needs.t # "list" THEN Threw
                               ELSE Returned(Obj(SetKey(deployWorkflow.v, "jobs",
                                        Obj(SetKey(kept, "deploy",
                                            Obj(SetKey(deploy.v, "needs",
                                                List(FilterNeeds(needs.v)))))))))

-----------------------------------------------------------------------------
(* vitest.config: cleanupVitestConfig, lines 20-27.                        *)

SETUP_TEST_ENV_TS ==
    <<"s","e","t","u","p","-","t","e","s","t","-","e","n","v",".","t","s">>
SETUP_TEST_ENV_JS ==
    <<"s","e","t","u","p","-","t","e","s","t","-","e","n","v",".","j","s">>

CleanupVitestConfig(vitestConfig) ==
    ReplaceFirst(vitestConfig, SETUP_TEST_ENV_TS, SETUP_TEST_ENV_JS)

-----------------------------------------------------------------------------
(* package.json: updatePackageJson, lines 77-99.                           *)

\* A package.json file: its indentation and its content.
JsonFile(indent, content) == [type |-> "json", indent |-> indent, content |-> content]

\* PackageJson.load keeps the content and the indentation it found.
PackageJsonLoad(file) ==
    IF file.type = "json" THEN Returned([indent |-> file.indent, content |-> file.content])
    ELSE Threw

\* packageJson.save writes the content with the indentation it was loaded with.
PackageJsonSave(packageJson) == JsonFile(packageJson.indent, packageJson.content)

TYPECHECK == <<"t","y","p","e","c","h","e","c","k">>
SP_TYPECHECK == <<" ">> \o TYPECHECK

\* removeUnusedDependencies
RemoveUnusedDependencies(dependencies, unusedDependencies) ==
    Without(dependencies, unusedDependencies)

\* packageJson.update(content): name is overwritten; devDependencies, when
\* given, replace the old ones, an empty map removing the key; scripts
\* replace the old ones, and a script that is not a string is a TypeError.
PackageJsonUpdate(content, name, devDependencies, scripts) ==
    IF \E i \in 1..Len(scripts) : scripts[i].value.t # "str" THEN Threw
    ELSE LET named == SetKey(content, "name", Str(name))
             deps  == IF devDependencies.t # "obj" THEN named
                      ELSE IF devDependencies.v = <<>>
                           THEN Without(named, {"devDependencies"})
                           ELSE SetKey(named, "devDependencies", devDependencies)
         IN  Returned(SetKey(deps, "scripts", Obj(scripts)))

\* updatePackageJson: the content of the manifest after the update.  A
\* TypeError when the manifest has no scripts, or, for the untyped variant,
\* no devDependencies or no validate script.
UpdatePackageJson(appName, typed, content) ==
    LET devDependencies == GetKey(content, "devDependencies")
        allScripts      == GetKey(content, "scripts")
    IN  IF allScripts.t # "obj" THEN Threw
        ELSE LET typecheck == GetKey(allScripts.v, "typecheck")
                 validate  == GetKey(allScripts.v, "validate")
                 scripts   == Without(allScripts.v, {"typecheck", "validate"})
             IN  IF typed
                 THEN PackageJsonUpdate(content, appName, devDependencies,
                          scripts \o <<Entry("typecheck", typecheck),
                                       Entry("validate", validate)>>)
                 ELSE IF devDependencies.t # "obj" \/ validate.t # "str" THEN Threw
                 ELSE PackageJsonUpdate(content, appName,
                          Obj(RemoveUnusedDependencies(devDependencies.v, {"ts-node"})),
                          scripts \o <<Entry("validate",
                                           Str(ReplaceFirst(validate.v, SP_TYPECHECK, <<>>)))>>)

-----------------------------------------------------------------------------
(* The package-manager resolver: lines 33-64.                              *)

PACKAGE_LOCK_JSON ==
    <<"p","a","c","k","a","g","e","-","l","o","c","k",".","j","s","o","n">>
PNPM_LOCK_YAML == <<"p","n","p","m","-","l","o","c","k",".","y","a","m","l">>
YARN_LOCK == <<"y","a","r","n",".","l","o","c","k">>

NPM_RUN == <<"n","p","m"," ","r","u","n"," ">>
PNPM_RUN == <<"p","n","p","m"," ","r","u","n"," ">>
YARN_ == <<"y","a","r","n"," ">>
DASHES_ == <<"-","-"," ">>
FORMAT == <<"f","o","r","m","a","t">>
DEV == <<"d","e","v">>
LOGLEVEL_WARN == <<"-","-","l","o","g","l","e","v","e","l"," ","w","a","r","n">>

\* semver.lt and semver.gte on <<major, minor, patch>>.
SemverLt(a, b) ==
    \/ a[1] < b[1]
    \/ a[1] = b[1] /\ a[2] < b[2]
    \/ a[1] = b[1] /\ a[2] = b[2] /\ a[3] < b[3]
SemverGte(a, b) == ~SemverLt(a, b)

NoProfile == [name |-> "none", exec |-> "none", lockfile |-> <<>>, dashes |-> FALSE]

\* getPackageManagerCommand(packageManager), given what `pnpm --version`
\* answers: execSync throws when the binary is missing.
GetPackageManagerCommand(manager, version) ==
    CASE manager = "npm" ->
           Returned([name |-> "npm", exec |-> "npx",
                     lockfile |-> PACKAGE_LOCK_JSON, dashes |-> TRUE])
      [] manager = "pnpm" ->
           IF ~version.installed THEN Threw
           ELSE Returned([name |-> "pnpm",
                          exec |-> IF SemverGte(version.v, <<6, 13, 0>>)
                                   THEN "pnpm exec" ELSE "pnpx",
                          lockfile |-> PNPM_LOCK_YAML,
                          dashes |-> SemverLt(version.v, <<7, 0, 0>>)])
      [] manager = "yarn" ->
           Returned([name |-> "yarn", exec |-> "yarn",
                     lockfile |-> YARN_LOCK, dashes |-> FALSE])

\* pm.run(script, args); no args is the empty string, which is falsy too.
PmRun(profile, script, args) ==
    CASE profile.name = "npm" ->
           NPM_RUN \o script \o <<" ">> \o (IF args # <<>> THEN DASHES_ \o args ELSE <<>>)
      [] profile.name = "pnpm" ->
           IF profile.dashes
           THEN PNPM_RUN \o script \o <<" ">>
                \o (IF args # <<>> THEN DASHES_ \o args ELSE <<>>)
           ELSE PNPM_RUN \o script \o <<" ">> \o args
      [] profile.name = "yarn" -> YARN_ \o script \o <<" ">> \o args

-----------------------------------------------------------------------------
(* The files main touches, relative to rootDirectory: lines 105-117 and    *)
(* 168-172.  A path is the sequence of the segments given to path.join.    *)

README_PATH == <<"README.md">>
FLY_TOML_PATH == <<"fly.toml">>
DEPLOY_WORKFLOW_PATH == <<".github", "workflows", "deploy.yml">>
DOCKERFILE_PATH == <<"Dockerfile">>
PACKAGE_JSON_PATH == <<"package.json">>
GITIGNORE_TEMPLATE_PATH == <<"remix.init", "gitignore">>
GITIGNORE_PATH == <<".gitignore">>
DEPENDABOT_PATH == <<".github", "dependabot.yml">>

\* A plausible slip: the wrong path constant handed to cleanupVitestConfig.
VitestConfigPathSlip(typed) == README_PATH

\* VITEST_CONFIG_PATH, from FILE_EXTENSION.
VitestConfigPath(typed) ==
    <<IF typed THEN "vitest.config.ts" ELSE "vitest.config.js">>

Paths ==
    {README_PATH, FLY_TOML_PATH, DEPLOY_WORKFLOW_PATH, DOCKERFILE_PATH,
     PACKAGE_JSON_PATH, GITIGNORE_TEMPLATE_PATH, GITIGNORE_PATH,
     DEPENDABOT_PATH, <<"vitest.config.ts">>, <<"vitest.config.js">>}

-----------------------------------------------------------------------------
(* The file operations main starts.                                        *)

\* The reads of lines 135-144.  readFileIfNotTypeScript starts no read for
\* the typed variant: it answers an already resolved promise.
ReadOps(typed) ==
    {"readFly", "readReadme", "readDockerfile", "loadPkg"}
    \cup (IF typed THEN {} ELSE {"readDeploy", "readVitest"})

\* A plausible slip: the manifest save left out of the array.
FirstBatchNoSave ==
    <<"writeFly", "writeReadme", "writeDockerfile", "copyGitignore", "rmDependabot">>

\* fileOperationPromises as built at lines 163-173.
FirstBatch ==
    <<"writeFly", "writeReadme", "writeDockerfile", "savePkg",
      "copyGitignore", "rmDependabot">>

WriteOps == Range(FirstBatch) \cup {"savePkg", "writeDeploy", "writeVitest"}

Ops == ReadOps(FALSE) \cup WriteOps

\* The file an operation reads.
OpReads(o, typed) ==
    CASE o = "readFly" -> {FLY_TOML_PATH}
      [] o = "readReadme" -> {README_PATH}
      [] o = "readDockerfile" -> {DOCKERFILE_PATH}
      [] o = "readDeploy" -> {DEPLOY_WORKFLOW_PATH}
      [] o = "readVitest" -> {VitestConfigPath(typed)}
      [] o = "loadPkg" -> {PACKAGE_JSON_PATH}
      [] o = "copyGitignore" -> {GITIGNORE_TEMPLATE_PATH}
      [] OTHER -> {}

\* The file an operation writes, creates or deletes.
OpWrites(o, typed) ==
    CASE o = "writeFly" -> {FLY_TOML_PATH}
      [] o = "writeReadme" -> {README_PATH}
      [] o = "writeDockerfile" -> {DOCKERFILE_PATH}
      [] o = "savePkg" -> {PACKAGE_JSON_PATH}
      [] o = "copyGitignore" -> {GITIGNORE_PATH}
      [] o = "rmDependabot" -> {DEPENDABOT_PATH}
      [] o = "writeDeploy" -> {DEPLOY_WORKFLOW_PATH}
      [] o = "writeVitest" -> {VitestConfigPath(typed)}
      [] OTHER -> {}

PathOf(S) == CHOOSE p \in S : TRUE

\* What a read resolves with, given the file it finds; the parse function
\* given to readFileIfNotTypeScript runs as part of the read.
ReadResult(o, file) ==
    IF file.type = "absent" THEN Threw
    ELSE CASE o = "readDeploy" -> YamlParse(file)
           [] o = "loadPkg" -> PackageJsonLoad(file)
           [] OTHER -> Returned(file)

\* A plausible slip: a failed operation undoes the batch.
DiskAfterRollback(d, original, o, typed, content, ok) ==
    IF ~ok THEN original
    ELSE CASE o \in {"copyGitignore"} ->
                [d EXCEPT ![GITIGNORE_PATH] = d[GITIGNORE_TEMPLATE_PATH]]
           [] o = "rmDependabot" -> [d EXCEPT ![DEPENDABOT_PATH] = Absent]
           [] OTHER -> [d EXCEPT ![PathOf(OpWrites(o, typed))] = content]

\* The files after operation o of the write batch settles: fs.writeFile
\* stores what it was given, fs.copyFile the template, fs.rm deletes, and
\* nothing undoes what the others did.  A failed operation is taken to have
\* failed before it touched its own file; what a write that fails half-way
\* leaves of that one file is not modelled.
DiskAfter(d, original, o, typed, content, ok) ==
    IF ~ok THEN d
    ELSE CASE o = "copyGitignore" ->
                [d EXCEPT ![GITIGNORE_PATH] = d[GITIGNORE_TEMPLATE_PATH]]
           [] o = "rmDependabot" -> [d EXCEPT ![DEPENDABOT_PATH] = Absent]
           [] OTHER -> [d EXCEPT ![PathOf(OpWrites(o, typed))] = content]

\* Whether the file system can carry the operation out at all: a copy needs
\* its source and fs.rm (without force) the file it deletes.
CanSucceed(d, o) ==
    CASE o = "copyGitignore" -> d[GITIGNORE_TEMPLATE_PATH].type # "absent"
      [] o = "rmDependabot" -> d[DEPENDABOT_PATH].type # "absent"
      [] OTHER -> TRUE

\* A plausible slip: Promise.allSettled, which never rejects.
JoinNeverRejects(S, st) == FALSE

\* Promise.all rejects as soon as one of its promises rejects.
JoinRejected(S, st) == \E o \in S : st[o] = "failed"

\* Promise.all fulfils when all of its promises have.
JoinFulfilled(S, st) == \A o \in S : st[o] = "done"

-----------------------------------------------------------------------------
(* The inputs the model is run on.                                         *)

ADD_PACKAGE_JSON ==
    <<"A","D","D"," ","p","a","c","k","a","g","e",".","j","s","o","n">>

\* Validate scripts: the type check named in the middle, first (so with no
\* space before it), twice, and not at all.
ValidateMiddle == <<"l">> \o SP_TYPECHECK \o <<" ", "t">>
ValidateFirst == TYPECHECK \o <<" ", "l">>
ValidateTwice == <<"l">> \o SP_TYPECHECK \o SP_TYPECHECK
ValidateNone == <<"l", " ", "t">>

ScriptSets ==
    {<<Entry("build", Str(<<"b">>)), Entry("typecheck", Str(<<"t","s","c">>)),
       Entry("validate", Str(v)), Entry("dev", Str(<<"d">>))>> :
        v \in {ValidateMiddle, ValidateFirst, ValidateTwice, ValidateNone}}
    \cup {<<Entry("validate", Str(ValidateMiddle)), Entry("build", Str(<<"b">>))>>,
          <<Entry("typecheck", Str(<<"t","s","c">>)), Entry("build", Str(<<"b">>))>>}

DevDependencySets ==
    {<<Entry("ts-node", Atom("10")), Entry("vitest", Atom("1"))>>,
     <<Entry("ts-node", Atom("10"))>>}

Manifests ==
    {JsonFile(2, <<Entry("name", Str(REPLACER)), Entry("scripts", Obj(sc)),
                   Entry("devDependencies", Obj(dd))>>) :
        sc \in ScriptSets, dd \in DevDependencySets}
    \cup {JsonFile(4, <<Entry("name", Str(REPLACER)), Entry("private", Atom("true"))>>),
          JsonFile(2, <<Entry("scripts", Obj(<<Entry("validate", Str(ValidateMiddle))>>))>>)}

TemplateManifest ==
    JsonFile(2, <<Entry("name", Str(REPLACER)),
                  Entry("scripts", Obj(<<Entry("build", Str(<<"b">>)),
                                         Entry("typecheck", Str(<<"t","s","c">>)),
                                         Entry("validate", Str(ValidateMiddle)),
                                         Entry("dev", Str(<<"d">>))>>)),
                  Entry("devDependencies", Obj(<<Entry("ts-node", Atom("10")),
                                                 Entry("vitest", Atom("1"))>>))>>)

ManifestWithoutValidate ==
    JsonFile(2, <<Entry("name", Str(REPLACER)),
                  Entry("scripts", Obj(<<Entry("typecheck", Str(<<"t","s","c">>)),
                                         Entry("build", Str(<<"b">>))>>)),
                  Entry("devDependencies", Obj(<<Entry("ts-node", Atom("10"))>>))>>)

Job(needs) == Obj(<<Entry("runs-on", Atom("ubuntu-latest")), Entry("needs", needs)>>)
PlainJob == Obj(<<Entry("runs-on", Atom("ubuntu-latest"))>>)
Needs(names) == List([i \in 1..Len(names) |-> Atom(names[i])])
Workflow(jobs) == Obj(<<Entry("name", Atom("Deploy")), Entry("jobs", Obj(jobs))>>)

TemplateWorkflow ==
    YamlFile(1, Workflow(<<Entry("lint", PlainJob), Entry("typecheck", PlainJob),
                           Entry("vitest", PlainJob),
                           Entry("deploy", Job(Needs(<<"lint", "typecheck", "vitest">>)))>>))

WorkflowScalarNeeds ==
    YamlFile(0, Workflow(<<Entry("typecheck", PlainJob),
                           Entry("deploy", Job(Atom("typecheck")))>>))

Workflows ==
    {TemplateWorkflow, WorkflowScalarNeeds,
     YamlFile(0, Workflow(<<Entry("typecheck", PlainJob),
                            Entry("deploy", Job(Needs(<<"typecheck">>)))>>)),
     YamlFile(2, Workflow(<<Entry("deploy", Job(Needs(<<"typecheck", "lint", "typecheck", "build">>))),
                            Entry("typecheck", PlainJob), Entry("lint", PlainJob),
                            Entry("build", Job(Needs(<<"typecheck">>)))>>)),
     YamlFile(0, Workflow(<<Entry("lint", PlainJob),
                            Entry("deploy", Job(Needs(<<"lint">>)))>>)),
     YamlFile(0, Workflow(<<Entry("lint", PlainJob), Entry("typecheck", PlainJob)>>)),
     YamlFile(0, Workflow(<<Entry("typecheck", PlainJob), Entry("deploy", PlainJob)>>)),
     YamlFile(0, Obj(<<Entry("name", Atom("Deploy"))>>))}

TemplateToml ==
    TomlFile(2, <<Entry("app", Str(REPLACER)),
                  Entry("env", Obj(<<Entry("PORT", Num(8080))>>)),
                  Entry("kill_timeout", Num(5))>>)

TomlDuplicateKey ==
    TomlFile(0, <<Entry("app", Str(REPLACER)), Entry("app", Str(<<"x">>))>>)

Tomls ==
    {TemplateToml, TomlDuplicateKey,
     TomlFile(1, <<Entry("kill_timeout", Num(5)),
                   Entry("app", Str(REPLACER \o <<"-", "s">>)),
                   Entry("console_command", Str(<<"/">> \o REPLACER))>>),
     TomlFile(0, <<Entry("primary_region", Atom("ams")),
                   Entry("app", Str(REPLACER)),
                   Entry("image", Str(REPLACER))>>),
     TomlFile(0, <<Entry("app", Str(<<"m", "y">>)), Entry("kill_timeout", Num(5))>>),
     TomlFile(0, <<Entry("kill_timeout", Num(5))>>),
     TomlFile(0, <<Entry("app", Num(1))>>)}

TemplateReadme == Text(<<"#", " ">> \o REPLACER \o <<" ", "/">> \o REPLACER)
TemplateDockerfile == Text(ADD_PACKAGE_JSON \o <<" ", ".", "/">>)
TemplateVitestConfig == Text(<<"'">> \o SETUP_TEST_ENV_TS \o <<"'">>)
TemplateGitignore == Text(<<"/", "b", "u", "i", "l", "d">>)
TemplateDependabot == YamlFile(0, Obj(<<Entry("version", Num(2))>>))

\* The generated project: the vitest config carries the variant's extension.
Disk(typed, fly, deploy, manifest, dependabot) ==
    [p \in Paths |->
        CASE p = FLY_TOML_PATH -> fly
          [] p = README_PATH -> TemplateReadme
          [] p = DOCKERFILE_PATH -> TemplateDockerfile
          [] p = DEPLOY_WORKFLOW_PATH -> deploy
          [] p = PACKAGE_JSON_PATH -> manifest
          [] p = GITIGNORE_TEMPLATE_PATH -> TemplateGitignore
          [] p = DEPENDABOT_PATH -> dependabot
          [] p = <<IF typed THEN "vitest.config.ts" ELSE "vitest.config.js">> ->
                TemplateVitestConfig
          [] OTHER -> Absent]

TemplateDisk(typed) ==
    Disk(typed, TemplateToml, TemplateWorkflow, TemplateManifest, TemplateDependabot)

\* The projects main is run on: the template, and the template with one
\* file damaged.
MainDisks(typed) ==
    {TemplateDisk(typed),
     Disk(typed, TomlDuplicateKey, TemplateWorkflow, TemplateManifest, TemplateDependabot),
     Disk(typed, TemplateToml, WorkflowScalarNeeds, TemplateManifest, TemplateDependabot),
     Disk(typed, TemplateToml, TemplateWorkflow, ManifestWithoutValidate, TemplateDependabot),
     Disk(typed, TemplateToml, TemplateWorkflow, TemplateManifest, Absent)}

\* The package manager asked for, and the pnpm the machine has.
NoVersion == [installed |-> FALSE, v |-> <<0, 0, 0>>]
Version(a, b, c) == [installed |-> TRUE, v |-> <<a, b, c>>]
PMEnvironments ==
    {<<"npm", NoVersion>>, <<"yarn", NoVersion>>, <<"pnpm", NoVersion>>,
     <<"pnpm", Version(6, 12, 9)>>, <<"pnpm", Version(6, 13, 0)>>,
     <<"pnpm", Version(7, 0, 0)>>}

\* The bytes crypto.randomBytes is taken to draw from.
ByteSamples == {0, 10, 26, 171, 255}
MainRandomBytes == {<<10, 171>>, <<255, 0>>}

\* Directory names: every string of up to MaxDirLen of these characters.
DirAlphabet == {"a", "Z", "7", "-", "_", ".", "$"}
DirNames == UNION {[1..n -> DirAlphabet] : n \in 0..MaxDirLen}
NameRoots ==
    UNION {{d, <<"/", "x", ".", "y", "/">> \o d, <<"/">> \o d \o <<"/">>} :
              d \in DirNames}
MainRoots == {<<"/", "t", "/", "m", "y", " ", "a", "p", "p">>}

\* The names the patchers are handed: main's APP_NAME for a few directories.
PatchNames ==
    {AppName(d, GetRandomString(<<171, 18>>)) :
        d \in {<<"f", "o", "o">>, <<"$", "&">>, <<"a", ".", "$", "'">>}}

-----------------------------------------------------------------------------
(* main: lines 101-198.                                                    *)

NoError == [kind |-> "none", op |-> "none"]
Error(kind, op) == [kind |-> kind, op |-> op]
NotRun == [runs |-> 0, cmd |-> <<>>, exit |-> 0]
NotPrinted == [done |-> FALSE, dev |-> <<>>]
EmptyDisk == [p \in Paths |-> Absent]

\* Everything main has not touched yet.
Fresh ==
    /\ err = NoError
    /\ pm = NoProfile
    /\ SUFFIX = <<>>
    /\ APP_NAME = <<>>
    /\ status = [o \in Ops |-> "idle"]
    /\ launches = [o \in Ops |-> 0]
    /\ fileOperationPromises = <<>>
    /\ loaded = [o \in ReadOps(FALSE) |-> Undefined]
    /\ payload = [o \in WriteOps |-> Absent]
    /\ formatter = NotRun
    /\ printed = NotPrinted

Init ==
    /\ pc = "start"
    /\ isTypeScript \in BOOLEAN
    /\ \E e \in PMEnvironments : packageManager = e[1] /\ pnpmVersion = e[2]
    /\ rootDirectory \in MainRoots
    /\ disk \in MainDisks(isTypeScript)
    /\ disk = TemplateDisk(isTypeScript) \/ packageManager = "npm"
    /\ disk0 = disk
    /\ Fresh

\* Starting the operations of S.
Launch(S, st) == [o \in Ops |-> IF o \in S THEN "pending" ELSE st[o]]
Launched(S, n) == [o \in Ops |-> IF o \in S THEN n[o] + 1 ELSE n[o]]

\* Lines 102-144: the profile is resolved, the name generated and the reads
\* started, up to the first await.
Start ==
    /\ pc = "start"
    /\ LET profile == GetPackageManagerCommand(packageManager, pnpmVersion)
       IN  IF profile.threw
           THEN /\ pc' = "rejected"
                /\ err' = Error("throw", "getPackageManagerCommand")
                /\ UNCHANGED <<pm, SUFFIX, APP_NAME, status, launches>>
           ELSE \E bytes \in {b \in MainRandomBytes : Len(b) = SUFFIX_BYTES} :
                /\ pm' = profile.value
                /\ SUFFIX' = GetRandomString(bytes)
                /\ APP_NAME' = AppName(Basename(rootDirectory), SUFFIX')
                /\ status' = Launch(ReadOps(isTypeScript), status)
                /\ launches' = Launched(ReadOps(isTypeScript), launches)
                /\ pc' = "awaitReads"
                /\ err' = err
    /\ UNCHANGED <<isTypeScript, packageManager, rootDirectory, pnpmVersion, disk,
                   disk0, fileOperationPromises, loaded, payload, formatter, printed>>

\* One of the reads settles: the file system answers or fails, and the
\* parse function may throw.  The await of line 135 rejects on the first
\* failure and resumes main once every read has resolved.
ReadSettles(o) ==
    /\ o \in ReadOps(isTypeScript)
    /\ status[o] = "pending"
    /\ \E ioOk \in BOOLEAN :
        LET result == ReadResult(o, disk[PathOf(OpReads(o, isTypeScript))])
            ok     == ioOk /\ ~result.threw
            st     == [status EXCEPT ![o] = IF ok THEN "done" ELSE "failed"]
        IN  /\ status' = st
            /\ loaded' = IF ok THEN [loaded EXCEPT ![o] = result.value] ELSE loaded
            /\ IF pc = "awaitReads" /\ JoinRejected(ReadOps(isTypeScript), st)
               THEN pc' = "rejected" /\ err' = Error("read", o)
               ELSE IF pc = "awaitReads" /\ JoinFulfilled(ReadOps(isTypeScript), st)
                    THEN pc' = "transform" /\ err' = err
                    ELSE pc' = pc /\ err' = err
    /\ UNCHANGED <<isTypeScript, packageManager, rootDirectory, pnpmVersion, pm,
                   SUFFIX, APP_NAME, disk, disk0, launches, fileOperationPromises,
                   payload, formatter, printed>>

\* Lines 146-185, from the resumption after the reads to the await of the
\* write batch: the patches are computed, the first six operations started,
\* and for the untyped variant the two cleanups started after them.  A throw
\* before line 163 starts nothing; a throw in cleanupDeployWorkflow leaves
\* the first six running.
Transform ==
    /\ pc = "transform"
    /\ LET parsed  == TomlParse(loaded["readFly"])
           patched == IF parsed.threw THEN Threw ELSE PatchToml(parsed.value, APP_NAME)
           newReadme == ReplaceAllRegExp(loaded["readReadme"].chars,
                                         EscapeRegExp(REPLACER), APP_NAME)
           newDockerfile ==
               IF pm.lockfile # <<>>
               THEN ReplaceAllRegExp(loaded["readDockerfile"].chars,
                                     EscapeRegExp(ADD_PACKAGE_JSON),
                                     ADD_PACKAGE_JSON \o <<" ">> \o pm.lockfile)
               ELSE loaded["readDockerfile"].chars
           updated == UpdatePackageJson(APP_NAME, isTypeScript, loaded["loadPkg"].content)
           cleaned == CleanupDeployWorkflow(loaded["readDeploy"])
           first   == [payload EXCEPT
                          !["writeFly"] = TomlStringify(patched.value),
                          !["writeReadme"] = Text(newReadme),
                          !["writeDockerfile"] = Text(newDockerfile),
                          !["savePkg"] = PackageJsonSave(
                              [indent |-> loaded["loadPkg"].indent,
                               content |-> updated.value])]
       IN  IF patched.threw \/ updated.threw
           THEN /\ pc' = "rejected"
                /\ err' = Error("throw", IF patched.threw THEN "toml"
                                         ELSE "updatePackageJson")
                /\ UNCHANGED <<status, launches, fileOperationPromises, payload>>
           ELSE IF isTypeScript
           THEN /\ fileOperationPromises' = FirstBatch
                /\ status' = Launch(Range(FirstBatch), status)
                /\ launches' = Launched(Range(FirstBatch), launches)
                /\ payload' = first
                /\ pc' = "awaitWrites"
                /\ err' = err
           ELSE IF cleaned.threw
           THEN /\ fileOperationPromises' = FirstBatch
                /\ status' = Launch(Range(FirstBatch), status)
                /\ launches' = Launched(Range(FirstBatch), launches)
                /\ payload' = first
                /\ pc' = "rejected"
                /\ err' = Error("throw", "cleanupDeployWorkflow")
           ELSE LET all == FirstBatch \o <<"writeDeploy", "writeVitest">>
                IN  /\ fileOperationPromises' = all
                    /\ status' = Launch(Range(all), status)
                    /\ launches' = Launched(Range(all), launches)
                    /\ payload' = [first EXCEPT
                           !["writeDeploy"] = YamlStringify(cleaned.value),
                           !["writeVitest"] =
                               Text(CleanupVitestConfig(loaded["readVitest"].chars))]
                    /\ pc' = "awaitWrites"
                    /\ err' = err
    /\ UNCHANGED <<isTypeScript, packageManager, rootDirectory, pnpmVersion, pm,
                   SUFFIX, APP_NAME, disk, disk0, loaded, formatter, printed>>

\* One operation of the write batch settles.  The await of line 185 rejects
\* on the first failure and resumes main once every operation has resolved;
\* the operations still running are left to run.
WriteSettles(o) ==
    /\ o \in WriteOps
    /\ status[o] = "pending"
    /\ \E ioOk \in BOOLEAN :
        LET ok == ioOk /\ CanSucceed(disk, o)
            st == [status EXCEPT ![o] = IF ok THEN "done" ELSE "failed"]
        IN  /\ status' = st
            /\ disk' = DiskAfter(disk, disk0, o, isTypeScript, payload[o], ok)
            /\ IF pc = "awaitWrites" /\ JoinRejected(Range(fileOperationPromises), st)
               THEN pc' = "rejected" /\ err' = Error("write", o)
               ELSE IF pc = "awaitWrites"
                       /\ JoinFulfilled(Range(fileOperationPromises), st)
                    THEN pc' = "format" /\ err' = err
                    ELSE pc' = pc /\ err' = err
    /\ UNCHANGED <<isTypeScript, packageManager, rootDirectory, pnpmVersion, pm,
                   SUFFIX, APP_NAME, disk0, launches, fileOperationPromises, loaded,
                   payload, formatter, printed>>

\* A plausible slip: the exit status of the formatter ignored (spawnSync
\* does not throw).
FormatThrowsNever(exit) == FALSE

\* execSync throws when the command exits with a status other than zero.
FormatThrows(exit) == exit # 0

\* Lines 187-197: the formatter runs to its end, then the message is logged.
\* What the formatter does to the files is its own business and is not
\* modelled.
Format ==
    /\ pc = "format"
    /\ \E exit \in {0, 1} :
        /\ formatter' = [runs |-> formatter.runs + 1,
                         cmd |-> PmRun(pm, FORMAT, LOGLEVEL_WARN), exit |-> exit]
        /\ IF FormatThrows(exit)
           THEN pc' = "rejected" /\ err' = Error("format", "execSync")
                /\ printed' = printed
           ELSE pc' = "done" /\ err' = err
                /\ printed' = [done |-> TRUE, dev |-> PmRun(pm, DEV, <<>>)]
    /\ UNCHANGED <<isTypeScript, packageManager, rootDirectory, pnpmVersion, pm,
                   SUFFIX, APP_NAME, disk, disk0, status, launches,
                   fileOperationPromises, loaded, payload>>

Next ==
    \/ Start
    \/ \E o \in Ops : ReadSettles(o)
    \/ Transform
    \/ \E o \in Ops : WriteSettles(o)
    \/ Format

Spec == Init /\ [][Next]_vars

-----------------------------------------------------------------------------
(* The name generator on its own: lines 121-126 applied to every directory *)
(* name and a sample of random bytes.                                      *)

InitName ==
    /\ pc = "name"
    /\ isTypeScript = TRUE
    /\ packageManager = "npm"
    /\ pnpmVersion = NoVersion
    /\ rootDirectory \in NameRoots
    /\ disk = EmptyDisk
    /\ disk0 = disk
    /\ Fresh

GenerateName ==
    /\ pc = "name"
    /\ \E bytes \in [1..SUFFIX_BYTES -> ByteSamples] :
        /\ SUFFIX' = GetRandomString(bytes)
        /\ APP_NAME' = AppName(Basename(rootDirectory), SUFFIX')
    /\ pc' = "named"
    /\ UNCHANGED <<isTypeScript, packageManager, rootDirectory, pnpmVersion, err,
                   pm, disk, disk0, status, launches, fileOperationPromises,
                   loaded, payload, formatter, printed>>

NextName == GenerateName

SpecName == InitName /\ [][NextName]_vars

-----------------------------------------------------------------------------
(* The structured-file patchers on their own: each parses its file,        *)
(* patches the document and serializes it back, as main does between its   *)
(* read of the file and its write of it.                                   *)

InitPatch ==
    /\ pc = "patch"
    /\ isTypeScript \in BOOLEAN
    /\ packageManager = "npm"
    /\ pnpmVersion = NoVersion
    /\ rootDirectory \in MainRoots
    /\ \E fly \in Tomls, deploy \in Workflows, manifest \in Manifests :
          disk = [p \in Paths |->
                     CASE p = FLY_TOML_PATH -> fly
                       [] p = DEPLOY_WORKFLOW_PATH -> deploy
                       [] p = PACKAGE_JSON_PATH -> manifest
                       [] OTHER -> Absent]
    /\ disk0 = disk
    /\ err = NoError
    /\ pm = NoProfile
    /\ SUFFIX = <<>>
    /\ APP_NAME \in PatchNames
    /\ status = [o \in Ops |-> "idle"]
    /\ launches = [o \in Ops |-> 0]
    /\ fileOperationPromises = <<>>
    /\ loaded = [o \in ReadOps(FALSE) |-> Undefined]
    /\ payload = [o \in WriteOps |-> Absent]
    /\ formatter = NotRun
    /\ printed = NotPrinted

\* The outcome of a patcher: the file it wrote, or the throw that stopped it.
Patched(o, path, outcome) ==
    /\ status[o] = "idle"
    /\ status' = [status EXCEPT ![o] = IF outcome.threw THEN "failed" ELSE "done"]
    /\ disk' = IF outcome.threw THEN disk ELSE [disk EXCEPT ![path] = outcome.value]
    /\ UNCHANGED <<isTypeScript, packageManager, rootDirectory, pnpmVersion, pc, err,
                   pm, SUFFIX, APP_NAME, disk0, launches, fileOperationPromises,
                   loaded, payload, formatter, printed>>

\* Lines 146-147 and 164.
PatchFlyToml ==
    LET parsed  == TomlParse(disk[FLY_TOML_PATH])
        patched == IF parsed.threw THEN Threw ELSE PatchToml(parsed.value, APP_NAME)
    IN  Patched("writeFly", FLY_TOML_PATH,
                IF patched.threw THEN Threw ELSE Returned(TomlStringify(patched.value)))

\* Lines 139-141 and 175-178: the untyped variant only.
PatchDeployWorkflow ==
    /\ ~isTypeScript
    /\ LET parsed  == YamlParse(disk[DEPLOY_WORKFLOW_PATH])
           cleaned == IF parsed.threw THEN Threw ELSE CleanupDeployWorkflow(parsed.value)
       IN  Patched("writeDeploy", DEPLOY_WORKFLOW_PATH,
                   IF cleaned.threw THEN Threw
                   ELSE Returned(YamlStringify(cleaned.value)))

\* Lines 143, 161 and 167.
PatchPackageJson ==
    LET packageJson == PackageJsonLoad(disk[PACKAGE_JSON_PATH])
        updated == IF packageJson.threw THEN Threw
                   ELSE UpdatePackageJson(APP_NAME, isTypeScript,
                                          packageJson.value.content)
    IN  Patched("savePkg", PACKAGE_JSON_PATH,
                IF updated.threw THEN Threw
                ELSE Returned(PackageJsonSave([indent |-> packageJson.value.indent,
                                               content |-> updated.value])))

NextPatch ==
    \/ PatchFlyToml
    \/ PatchDeployWorkflow
    \/ PatchPackageJson

SpecPatch == InitPatch /\ [][NextPatch]_vars

-----------------------------------------------------------------------------
(* Properties.                                                             *)

ScriptsOf(file) == GetKey(file.content, "scripts").v
JobsOf(file) == GetKey(YamlParse(file).value.v, "jobs").v
DeployOf(file) == GetKey(JobsOf(file), "deploy").v
NeedsOf(file) == GetKey(DeployOf(file), "needs").v
NotTypecheck(need) == need # Atom("typecheck")
TableOf(file) == TomlParse(file).value

\* C1: after updatePackageJson, for the untyped variant the scripts have no
\* typecheck key and the validate script does not contain "typecheck"; for
\* the typed variant the typecheck and validate scripts are what they were.
C1_ScriptsAfterUpdate ==
    status["savePkg"] = "done" =>
        LET old == ScriptsOf(disk0[PACKAGE_JSON_PATH])
            new == ScriptsOf(disk[PACKAGE_JSON_PATH])
        IN  IF isTypeScript
            THEN /\ GetKey(new, "typecheck") = GetKey(old, "typecheck")
                 /\ GetKey(new, "validate") = GetKey(old, "validate")
            ELSE /\ ~HasKey(new, "typecheck")
                 /\ ~Contains(GetKey(new, "validate").v, TYPECHECK)

\* C2: the workflow written back for the untyped variant has no typecheck
\* job, its deploy job does not need typecheck, and every other job, every
\* other entry of needs and everything else in the document is as it was and
\* in its original order.
C2_WorkflowCleaned ==
    status["writeDeploy"] = "done" =>
        LET old == disk0[DEPLOY_WORKFLOW_PATH]
            new == disk[DEPLOY_WORKFLOW_PATH]
        IN  /\ ~isTypeScript
            /\ ~HasKey(JobsOf(new), "typecheck")
            /\ GetKey(JobsOf(new), "deploy").t = "obj"
            /\ GetKey(DeployOf(new), "needs").t = "list"
            /\ Atom("typecheck") \notin Range(NeedsOf(new))
            /\ NeedsOf(new) = SelectSeq(NeedsOf(old), NotTypecheck)
            /\ Keys(JobsOf(new)) = Keys(Without(JobsOf(old), {"typecheck"}))
            /\ \A k \in Range(Keys(JobsOf(new))) \ {"deploy"} :
                  GetKey(JobsOf(new), k) = GetKey(JobsOf(old), k)
            /\ Without(DeployOf(new), {"needs"}) = Without(DeployOf(old), {"needs"})
            /\ Keys(DeployOf(new)) = Keys(DeployOf(old))
            /\ Without(YamlParse(new).value.v, {"jobs"})
                  = Without(YamlParse(old).value.v, {"jobs"})

\* The untyped variant has rewritten a workflow that had a typecheck job
\* among others and a deploy job needing typecheck among others.
C2_Witness ==
    /\ status["writeDeploy"] = "done"
    /\ HasKey(JobsOf(disk0[DEPLOY_WORKFLOW_PATH]), "typecheck")
    /\ Atom("typecheck") \in Range(NeedsOf(disk0[DEPLOY_WORKFLOW_PATH]))
    /\ Len(NeedsOf(disk[DEPLOY_WORKFLOW_PATH])) >= 2
    /\ Len(JobsOf(disk[DEPLOY_WORKFLOW_PATH])) >= 3

\* C3: patching fly.toml changes the app field only: the document keeps its
\* keys, every other field keeps its value, and an app that was the
\* placeholder is the generated name.
C3_OnlyAppChanges ==
    status["writeFly"] = "done" =>
        LET old == TableOf(disk0[FLY_TOML_PATH])
            new == TableOf(disk[FLY_TOML_PATH])
        IN  /\ Range(Keys(new)) = Range(Keys(old))
            /\ DistinctKeys(new)
            /\ \A k \in Range(Keys(old)) \ {"app"} : GetKey(new, k) = GetKey(old, k)
            /\ GetKey(old, "app") = Str(REPLACER) => GetKey(new, "app") = Str(APP_NAME)

\* A document whose app was the placeholder, and which names the
\* placeholder in another field too, has been patched.
C3_Witness ==
    /\ status["writeFly"] = "done"
    /\ GetKey(TableOf(disk0[FLY_TOML_PATH]), "app") = Str(REPLACER)
    /\ GetKey(TableOf(disk0[FLY_TOML_PATH]), "image") = Str(REPLACER)
    /\ GetKey(TableOf(disk[FLY_TOML_PATH]), "app") = Str(APP_NAME)

\* C4: the generated name holds only letters, digits, hyphens and
\* underscores, and every such character of the directory name is in the
\* generated name, unchanged, at the position it had.
C4_NameSanitized ==
    pc = "named" =>
        LET dirName == Basename(rootDirectory)
        IN  /\ \A i \in 1..Len(APP_NAME) : APP_NAME[i] \in AllowedChars
            /\ Len(APP_NAME) >= Len(dirName)
            /\ \A i \in 1..Len(dirName) :
                  dirName[i] \in AllowedChars => APP_NAME[i] = dirName[i]

\* A name generated from a directory name with two disallowed characters
\* around an allowed one.
C4_Witness ==
    /\ pc = "named"
    /\ Basename(rootDirectory) = <<"$", "_", ".">>
    /\ SubSeq(APP_NAME, 1, 3) = <<"-", "_", "-">>

\* C10 as the specification has it: the random suffix is exactly 2
\* hexadecimal characters.
C10_SuffixTwoHexChars ==
    pc = "named" =>
        /\ Len(SUFFIX) = 2
        /\ \A i \in 1..Len(SUFFIX) : SUFFIX[i] \in Range(HexDigits)

\* C10, amended: the random suffix is exactly 4 hexadecimal characters, two
\* for each of the 2 random bytes, and the generated name is the sanitized
\* directory name, a hyphen and that suffix.
C10_SuffixFourHexChars ==
    pc = "named" =>
        LET dirName == Basename(rootDirectory)
        IN  /\ Len(SUFFIX) = 4
            /\ \A i \in 1..Len(SUFFIX) : SUFFIX[i] \in Range(HexDigits)
            /\ Len(APP_NAME) = Len(dirName) + 1 + 4
            /\ SubSeq(APP_NAME, Len(dirName) + 1, Len(APP_NAME)) = <<"-">> \o SUFFIX

\* A suffix whose two bytes are both below 16, so that each needs padding.
C10_Witness ==
    /\ pc = "named"
    /\ SUFFIX = <<"0", "a", "0", "0">>
    /\ Len(Basename(rootDirectory)) = 2


\* The operations the write batch is made of for each variant.
WholeBatch ==
    {"writeFly", "writeReadme", "writeDockerfile", "savePkg", "copyGitignore",
     "rmDependabot"} \cup (IF isTypeScript THEN {} ELSE {"writeDeploy", "writeVitest"})

\* C5: the formatter is run only once every operation of the write batch has
\* completed successfully; the completion message is logged only after the
\* formatter exited with status zero; and a formatter that exits with
\* another status makes main reject without the message.
C5_FormatterLast ==
    /\ (pc = "format" \/ formatter.runs > 0) =>
          /\ Range(fileOperationPromises) = WholeBatch
          /\ \A o \in WholeBatch : status[o] = "done"
    /\ printed.done => formatter.runs = 1 /\ formatter.exit = 0 /\ pc = "done"
    /\ pc = "done" => printed.done
    /\ (formatter.runs > 0 /\ formatter.exit # 0) => pc = "rejected" /\ ~printed.done

\* An untyped run, with pnpm 7, that ended with the message logged.
C5_Witness ==
    /\ pc = "done"
    /\ printed.done
    /\ ~isTypeScript
    /\ formatter.cmd = PNPM_RUN \o FORMAT \o <<" ">> \o LOGLEVEL_WARN
    /\ \A o \in WholeBatch : status[o] = "done"

\* C6: once one of the reads has failed, main has rejected with the error of
\* a failed read, no write, copy or delete has been started, the formatter
\* has not run, the files are untouched, and no operation is ever started
\* twice.
C6_ReadJoinAllOrNothing ==
    /\ \A o \in Ops : launches[o] <= 1
    /\ (\E r \in ReadOps(isTypeScript) : status[r] = "failed") =>
          /\ pc = "rejected"
          /\ err.kind = "read"
          /\ err.op \in ReadOps(isTypeScript)
          /\ status[err.op] = "failed"
          /\ \A w \in WriteOps : status[w] = "idle" /\ launches[w] = 0
          /\ fileOperationPromises = <<>>
          /\ formatter.runs = 0
          /\ ~printed.done
          /\ disk = disk0

\* A read failed while others were running, and the others went on: one has
\* completed, one has failed too, one is still running.
C6_Witness ==
    /\ pc = "rejected"
    /\ err = Error("read", "readDeploy")
    /\ status["readFly"] = "done"
    /\ status["loadPkg"] = "failed"
    /\ status["readReadme"] = "pending"

\* C7 as the specification has it: the manifest save is not one of the
\* operations launched together and awaited by the join of the write phase.
C7_SaveOutsideBatch ==
    \A i \in 1..Len(fileOperationPromises) : fileOperationPromises[i] # "savePkg"

\* C7, amended: the manifest save is one of the operations of the write
\* batch: it is started with them, at most once, and the join awaits it;
\* until it is started package.json is untouched (updatePackageJson writes
\* nothing itself), and once it has completed package.json holds the
\* updated manifest.
C7_SaveInsideBatch ==
    /\ pc \in {"awaitWrites", "format", "done"} =>
          "savePkg" \in Range(fileOperationPromises)
    /\ status["savePkg"] # "idle" <=> "savePkg" \in Range(fileOperationPromises)
    /\ (pc \in {"format", "done"} \/ formatter.runs > 0) => status["savePkg"] = "done"
    /\ status["savePkg"] = "idle" => disk[PACKAGE_JSON_PATH] = disk0[PACKAGE_JSON_PATH]
    /\ status["savePkg"] = "done" => disk[PACKAGE_JSON_PATH] = payload["savePkg"]
    /\ launches["savePkg"] <= 1

\* The manifest has been saved while main awaits the batch and another
\* operation of it is still running.
C7_Witness ==
    /\ pc = "awaitWrites"
    /\ status["savePkg"] = "done"
    /\ disk[PACKAGE_JSON_PATH] # disk0[PACKAGE_JSON_PATH]
    /\ status["writeFly"] = "pending"

\* C8: no two operations running at the same time touch the same file with
\* one of them writing, copying onto or deleting it, and a write to a file
\* starts only after the read of that file has completed.
C8_NoConflictingOperations ==
    /\ \A o1, o2 \in Ops :
          (o1 # o2 /\ status[o1] = "pending" /\ status[o2] = "pending") =>
              OpWrites(o1, isTypeScript)
                  \cap (OpReads(o2, isTypeScript) \cup OpWrites(o2, isTypeScript)) = {}
    /\ \A r \in ReadOps(isTypeScript), w \in WriteOps :
          (OpReads(r, isTypeScript) \cap OpWrites(w, isTypeScript) # {}
             /\ status[w] # "idle") => status[r] = "done"

\* The eight operations of the untyped batch all running at once.
C8_Witness ==
    /\ ~isTypeScript
    /\ \A o \in WholeBatch : status[o] = "pending"

\* What a completed operation of the batch leaves on disk.
EffectInPlace(o) ==
    CASE o = "copyGitignore" -> disk[GITIGNORE_PATH] = disk0[GITIGNORE_TEMPLATE_PATH]
      [] o = "rmDependabot" -> disk[DEPENDABOT_PATH] = Absent
      [] OTHER -> disk[PathOf(OpWrites(o, isTypeScript))] = payload[o]

\* What C9 says besides naming the error: no formatter, no message, what was
\* written stays written, and what was started stays able to complete.
NoRollback ==
    /\ pc = "rejected"
    /\ formatter.runs = 0
    /\ ~printed.done
    /\ \A o \in WriteOps : status[o] = "done" => EffectInPlace(o)
    /\ \A o \in Range(fileOperationPromises) :
          /\ status[o] \in {"pending", "done", "failed"}
          /\ status[o] = "pending" => ENABLED WriteSettles(o)

SomeWriteFailed == \E o \in Range(fileOperationPromises) : status[o] = "failed"

====
